---- MODULE Spec2Model ----
(***************************************************************************)
(* A model of the "jules" command group of src/jules42.py.  Every command  *)
(* is one linear pass over remote calls; the remote service is the         *)
(* environment: each remote call either answers (with a value drawn from   *)
(* a small set) or raises.  One action is one loop step of a command.      *)
(***************************************************************************)
EXTENDS Integers, Sequences, FiniteSets, TLC

VARIABLES
    cmd,          \* the command of this invocation
    pc,           \* position in the command
    calls,        \* remote calls made so far, in order
    fetched,      \* response.data of every page the remote has answered, in order
    items,        \* the list the inner for loop iterates
    idx,          \* number of elements of items already iterated
    output,       \* what was written to standard output, in order
    stderr,       \* what was written to standard error, in order
    exit_code,    \* exit code of the process, NoExit while it runs
    managers,     \* list_managers: the dict, as its (key, value) entries in insertion order
    lookups,      \* list_managers: (user, managerUsername) of every detail call answered
    total_count,  \* audit_log_total
    page_num,     \* list_alert_urls
    alerts,       \* list_alert_urls
    args,         \* download: the options md5, sha256, save_as
    response,     \* download: the chunks of the streamed response
    files,        \* download: the local file system, file name -> content
    file_ops      \* download: the operations made on the local file system, in order

vars == <<cmd, pc, calls, fetched, items, idx, output, stderr, exit_code,
          managers, lookups, total_count, page_num, alerts, args, response, files,
          file_ops>>

----------------------------------------------------------------------------
(* Bounds of the model *)

\* the remote answers at most this many pages to one generator
MaxPages == 2

----------------------------------------------------------------------------
(* Python values *)

\* Python's None
None == "<None>"
\* exit code of a process that has not ended
NoExit == -1

\* truth value of a string-or-None, as `if manager_username:` tests it
Truthy(v) == v # None /\ v # ""

\* data.get(key, default)
Get(data, key, default) == IF key \in DOMAIN data THEN data[key] ELSE default

\* the process ends: a normal return exits 0, an exception that reaches the
\* process boundary exits 1
Returned == 0
Raised == 1

----------------------------------------------------------------------------
(* The paginated generators (sdk.<client>.get_all()) *)

\* GeneratorRaises with the failed call caught and made again
GeneratorRaises_Retry(name) ==
    /\ calls' = Append(calls, <<name, Len(fetched) + 1, "raised">>)
    /\ UNCHANGED <<pc, exit_code>>

\* next(generator) raised: the exception is not caught by any command
GeneratorRaises(name) ==
    /\ calls' = Append(calls, <<name, Len(fetched) + 1, "raised">>)
    /\ pc' = "failed"
    /\ exit_code' = Raised

\* next(generator) yielded the response `data`
GeneratorYields(name, data) ==
    /\ Len(fetched) < MaxPages
    /\ calls' = Append(calls, <<name, Len(fetched) + 1, "ok">>)
    /\ fetched' = Append(fetched, data)

----------------------------------------------------------------------------
(* list_managers *)

Users == { [userUid |-> "1", username |-> "amy"],
           [userUid |-> "2", username |-> "bob"] }

\* what detectionlists.get_user_by_id answers for managerUsername
\* (None: field absent or null)
ManagerUsernames == {None, "", "amy", "dan"}

\* response.data of a page of users.get_all()
UserPages ==
    { [users |-> s] : s \in {<<>>} \cup {<<u>> : u \in Users}
                               \cup {<<u, v>> : u \in Users, v \in Users} }
    \cup { [totalCount |-> 0] }

HasKey(d, k) == \E i \in 1..Len(d) : d[i].key = k

\* d[k] = v on an insertion-ordered dict
SetItem(d, k, v) ==
    IF HasKey(d, k)
    THEN [i \in 1..Len(d) |-> IF d[i].key = k THEN [key |-> k, val |-> v] ELSE d[i]]
    ELSE Append(d, [key |-> k, val |-> v])

GetItem(d, k) == (CHOOSE i \in 1..Len(d) : d[i].key = k) \* index
ItemOf(d, k) == d[GetItem(d, k)].val

\* AddEmployee with line 44 assigning a new list instead of appending
AddEmployee_Overwrite(d, manager_username, username) ==
    IF Truthy(manager_username)
    THEN SetItem(d, manager_username, <<username>>)
    ELSE d

\* AddEmployee with line 40 testing `is not None` instead of the truth value
AddEmployee_NotNone(d, manager_username, username) ==
    IF manager_username # None
    THEN IF ~HasKey(d, manager_username)
         THEN SetItem(d, manager_username, <<username>>)
         ELSE SetItem(d, manager_username, Append(ItemOf(d, manager_username), username))
    ELSE d

\* lines 40-44: the update of managers for one user
AddEmployee(d, manager_username, username) ==
    IF Truthy(manager_username)
    THEN IF ~HasKey(d, manager_username)
         THEN SetItem(d, manager_username, <<username>>)
         ELSE SetItem(d, manager_username, Append(ItemOf(d, manager_username), username))
    ELSE d

\* output_pretty(value): writes the indented rendering of value to standard output
output_pretty(out, value) == Append(out, [pretty |-> value])

\* line 33, a page: for response in users_generator; users = response.data.get("users", [])
list_managers_page ==
    /\ cmd = "list_managers" /\ pc = "pages"
    /\ \E data \in UserPages :
          /\ GeneratorYields("users.get_all", data)
          /\ items' = Get(data, "users", <<>>)
          /\ idx' = 0
          /\ pc' = IF Get(data, "users", <<>>) = <<>> THEN "pages" ELSE "records"
    /\ UNCHANGED <<cmd, output, stderr, exit_code, managers, lookups, total_count,
                   page_num, alerts, args, response, files, file_ops>>

\* line 33, the remote call of the generator fails
list_managers_page_raises ==
    /\ cmd = "list_managers" /\ pc = "pages"
    /\ GeneratorRaises("users.get_all")
    /\ UNCHANGED <<cmd, fetched, items, idx, output, stderr, managers, lookups,
                   total_count, page_num, alerts, args, response, files, file_ops>>

\* lines 35-44: one user of the page
list_managers_user ==
    /\ cmd = "list_managers" /\ pc = "records"
    /\ LET user == items[idx + 1]
           user_id == user["userUid"]
           username == user["username"]
       IN  \E manager_username \in ManagerUsernames :
              /\ calls' = Append(calls, <<"detectionlists.get_user_by_id", user_id, "ok">>)
              /\ lookups' = Append(lookups, [username |-> username,
                                             managerUsername |-> manager_username])
              /\ managers' = AddEmployee(managers, manager_username, username)
    /\ idx' = idx + 1
    /\ pc' = IF idx + 1 = Len(items) THEN "pages" ELSE "records"
    /\ UNCHANGED <<cmd, fetched, items, output, stderr, exit_code, total_count,
                   page_num, alerts, args, response, files, file_ops>>

\* line 38: the detail call fails
list_managers_user_raises ==
    /\ cmd = "list_managers" /\ pc = "records"
    /\ calls' = Append(calls, <<"detectionlists.get_user_by_id",
                                items[idx + 1]["userUid"], "raised">>)
    /\ pc' = "failed"
    /\ exit_code' = Raised
    /\ UNCHANGED <<cmd, fetched, items, idx, output, stderr, managers, lookups,
                   total_count, page_num, alerts, args, response, files, file_ops>>

\* lines 33 and 46: the generator is exhausted; output_pretty(managers)
list_managers_output ==
    /\ cmd = "list_managers" /\ pc = "pages"
    /\ output' = output_pretty(output, managers)
    /\ pc' = "done"
    /\ exit_code' = Returned
    /\ UNCHANGED <<cmd, calls, fetched, items, idx, stderr, managers, lookups,
                   total_count, page_num, alerts, args, response, files, file_ops>>

NextManagers ==
    \/ list_managers_page
    \/ list_managers_page_raises
    \/ list_managers_user
    \/ list_managers_user_raises
    \/ list_managers_output

----------------------------------------------------------------------------
(* list_orgs *)

Orgs == { [orgUid |-> "10", orgName |-> "root"],
          [orgUid |-> "11", orgName |-> "sales"] }

OrgPages ==
    { [orgs |-> s] : s \in {<<>>} \cup {<<o>> : o \in Orgs}
                              \cup {<<o, p>> : o \in Orgs, p \in Orgs} }

\* json.dumps(obj, indent=2): the JSON text of obj
json_dumps(obj) == [json |-> obj]

\* a string literal, as a line of output
Text(s) == [text |-> s]

\* str(d) of a dict, as click.echo renders a message that is no string
str_dict(d) == [dict |-> d]

\* str(n) of an int
str_int(n) == [int |-> n]

\* click.echo(message): one line on the stream
echo(out, message) == Append(out, message)

\* line 54, a page: for response in gen; org_list = response["orgs"]
list_orgs_page ==
    /\ cmd = "list_orgs" /\ pc = "pages"
    /\ \E data \in OrgPages :
          /\ GeneratorYields("orgs.get_all", data)
          /\ items' = data["orgs"]
          /\ idx' = 0
          /\ pc' = IF data["orgs"] = <<>> THEN "pages" ELSE "records"
    /\ UNCHANGED <<cmd, output, stderr, exit_code, managers, lookups, total_count,
                   page_num, alerts, args, response, files, file_ops>>

\* line 54, the remote call of the generator fails
list_orgs_page_raises ==
    /\ cmd = "list_orgs" /\ pc = "pages"
    /\ GeneratorRaises("orgs.get_all")
    /\ UNCHANGED <<cmd, fetched, items, idx, output, stderr, managers, lookups,
                   total_count, page_num, alerts, args, response, files, file_ops>>

\* lines 56-58: one org of the page
list_orgs_org ==
    /\ cmd = "list_orgs" /\ pc = "records"
    /\ output' = echo(output, json_dumps(items[idx + 1]))
    /\ idx' = idx + 1
    /\ pc' = IF idx + 1 = Len(items) THEN "pages" ELSE "records"
    /\ UNCHANGED <<cmd, calls, fetched, items, stderr, exit_code, managers, lookups,
                   total_count, page_num, alerts, args, response, files, file_ops>>

\* line 54: the generator is exhausted, the command returns
list_orgs_return ==
    /\ cmd = "list_orgs" /\ pc = "pages"
    /\ pc' = "done"
    /\ exit_code' = Returned
    /\ UNCHANGED <<cmd, calls, fetched, items, idx, output, stderr, managers, lookups,
                   total_count, page_num, alerts, args, response, files, file_ops>>

NextOrgs ==
    \/ list_orgs_page
    \/ list_orgs_page_raises
    \/ list_orgs_org
    \/ list_orgs_return

----------------------------------------------------------------------------
(* verify_audit_log_dates and audit_log_total: the audit log *)

\* timestamps of audit log events, as the remote sends them
Timestamps == {"2020-11-23T17:13:26.239647Z", "2020-11-23 17:13", "yesterday"}

\* the timestamps parse_timestamp parses; on the others it raises ValueError
Parseable == {"2020-11-23T17:13:26.239647Z"}

\* parse_timestamp(timestamp): the parsed time, or the exception raised
parse_timestamp(timestamp) ==
    IF timestamp \in Parseable
    THEN [raises |-> None, time |-> <<"epoch", timestamp>>]
    ELSE [raises |-> "ValueError", time |-> <<>>]

Events == { [type |-> "login", timestamp |-> t] : t \in Timestamps }

\* response.data of a page of auditlogs.get_all(); a page may lack "events"
AuditPages ==
    { [events |-> s] : s \in {<<>>} \cup {<<e>> : e \in Events}
                                \cup {<<e, f>> : e \in Events, f \in Events} }
    \cup { [totalCount |-> 0] }

\* Finding without line 84
Finding_NoEvent(out, event) == echo(out, Text("FOUND ONE!"))

\* lines 82-84: the finding echoed for an event whose timestamp did not parse
Finding(out, event) == echo(echo(out, Text("FOUND ONE!")), str_dict(event))

\* lines 79-84: one event
VerifyEvent(out, event) ==
    IF parse_timestamp(event["timestamp"]).raises = "ValueError"
    THEN Finding(out, event)
    ELSE out

\* line 76, a page: for response in gen; events = response["events"]
verify_audit_log_dates_page ==
    /\ cmd = "verify_audit_log_dates" /\ pc = "pages"
    /\ \E data \in AuditPages :
          /\ GeneratorYields("auditlogs.get_all", data)
          /\ IF "events" \in DOMAIN data
             THEN /\ items' = data["events"]
                  /\ idx' = 0
                  /\ pc' = IF data["events"] = <<>> THEN "pages" ELSE "records"
                  /\ UNCHANGED exit_code
             ELSE \* KeyError, not caught
                  /\ pc' = "failed"
                  /\ exit_code' = Raised
                  /\ UNCHANGED <<items, idx>>
    /\ UNCHANGED <<cmd, output, stderr, managers, lookups, total_count,
                   page_num, alerts, args, response, files, file_ops>>

\* line 76, the remote call of the generator fails
verify_audit_log_dates_page_raises ==
    /\ cmd = "verify_audit_log_dates" /\ pc = "pages"
    /\ GeneratorRaises("auditlogs.get_all")
    /\ UNCHANGED <<cmd, fetched, items, idx, output, stderr, managers, lookups,
                   total_count, page_num, alerts, args, response, files, file_ops>>

\* lines 78-84: one event of the page
verify_audit_log_dates_event ==
    /\ cmd = "verify_audit_log_dates" /\ pc = "records"
    /\ output' = VerifyEvent(output, items[idx + 1])
    /\ idx' = idx + 1
    /\ pc' = IF idx + 1 = Len(items) THEN "pages" ELSE "records"
    /\ UNCHANGED <<cmd, calls, fetched, items, stderr, exit_code, managers, lookups,
                   total_count, page_num, alerts, args, response, files, file_ops>>

\* line 76: the generator is exhausted, the command returns
verify_audit_log_dates_return ==
    /\ cmd = "verify_audit_log_dates" /\ pc = "pages"
    /\ pc' = "done"
    /\ exit_code' = Returned
    /\ UNCHANGED <<cmd, calls, fetched, items, idx, output, stderr, managers, lookups,
                   total_count, page_num, alerts, args, response, files, file_ops>>

NextVerify ==
    \/ verify_audit_log_dates_page
    \/ verify_audit_log_dates_page_raises
    \/ verify_audit_log_dates_event
    \/ verify_audit_log_dates_return

\* AddPage with line 179 assigning (=) instead of adding (+=)
AddPage_Assign(count, data) ==
    IF "events" \in DOMAIN data THEN Len(data["events"]) ELSE count

\* lines 178-179: the count after one page
AddPage(count, data) ==
    IF "events" \in DOMAIN data THEN count + Len(data["events"]) ELSE count

\* lines 177-179, a page
audit_log_total_page ==
    /\ cmd = "audit_log_total" /\ pc = "pages"
    /\ \E data \in AuditPages :
          /\ GeneratorYields("auditlogs.get_all", data)
          /\ total_count' = AddPage(total_count, data)
    /\ UNCHANGED <<cmd, pc, items, idx, output, stderr, exit_code, managers, lookups,
                   page_num, alerts, args, response, files, file_ops>>

\* line 177, the remote call of the generator fails
audit_log_total_page_raises ==
    /\ cmd = "audit_log_total" /\ pc = "pages"
    /\ GeneratorRaises("auditlogs.get_all")
    /\ UNCHANGED <<cmd, fetched, items, idx, output, stderr, managers, lookups,
                   total_count, page_num, alerts, args, response, files, file_ops>>

\* lines 177 and 181: the generator is exhausted; click.echo(total_count)
audit_log_total_echo ==
    /\ cmd = "audit_log_total" /\ pc = "pages"
    /\ output' = echo(output, str_int(total_count))
    /\ pc' = "done"
    /\ exit_code' = Returned
    /\ UNCHANGED <<cmd, calls, fetched, items, idx, stderr, managers, lookups,
                   total_count, page_num, alerts, args, response, files, file_ops>>

NextAudit ==
    \/ audit_log_total_page
    \/ audit_log_total_page_raises
    \/ audit_log_total_echo

----------------------------------------------------------------------------
(* devices_health *)

Devices == { [guid |-> "d1", name |-> "laptop"],
             [guid |-> "d2", name |-> "desktop"] }

DevicePages ==
    { [computers |-> s] : s \in {<<>>} \cup {<<d>> : d \in Devices}
                                   \cup {<<d, e>> : d \in Devices, e \in Devices} }

\* create_device_data(sdk, device): the health row of a device
create_device_data(device) == [device |-> device["guid"], health |-> "ok"]

\* line 93, a page: for response in generator; devices = response["computers"]
devices_health_page ==
    /\ cmd = "devices_health" /\ pc = "pages"
    /\ \E data \in DevicePages :
          /\ GeneratorYields("devices.get_all", data)
          /\ items' = data["computers"]
          /\ idx' = 0
          /\ pc' = IF data["computers"] = <<>> THEN "pages" ELSE "records"
    /\ UNCHANGED <<cmd, output, stderr, exit_code, managers, lookups, total_count,
                   page_num, alerts, args, response, files, file_ops>>

\* line 93, the remote call of the generator fails
devices_health_page_raises ==
    /\ cmd = "devices_health" /\ pc = "pages"
    /\ GeneratorRaises("devices.get_all")
    /\ UNCHANGED <<cmd, fetched, items, idx, output, stderr, managers, lookups,
                   total_count, page_num, alerts, args, response, files, file_ops>>

\* lines 95-97: one device of the page
devices_health_device ==
    /\ cmd = "devices_health" /\ pc = "records"
    /\ calls' = Append(calls, <<"create_device_data", items[idx + 1]["guid"], "ok">>)
    /\ output' = output_pretty(output, create_device_data(items[idx + 1]))
    /\ idx' = idx + 1
    /\ pc' = IF idx + 1 = Len(items) THEN "pages" ELSE "records"
    /\ UNCHANGED <<cmd, fetched, items, stderr, exit_code, managers, lookups,
                   total_count, page_num, alerts, args, response, files, file_ops>>

\* line 96: a remote call of create_device_data fails
devices_health_device_raises ==
    /\ cmd = "devices_health" /\ pc = "records"
    /\ calls' = Append(calls, <<"create_device_data", items[idx + 1]["guid"], "raised">>)
    /\ pc' = "failed"
    /\ exit_code' = Raised
    /\ UNCHANGED <<cmd, fetched, items, idx, output, stderr, managers, lookups,
                   total_count, page_num, alerts, args, response, files, file_ops>>

\* line 93: the generator is exhausted, the command returns
devices_health_return ==
    /\ cmd = "devices_health" /\ pc = "pages"
    /\ pc' = "done"
    /\ exit_code' = Returned
    /\ UNCHANGED <<cmd, calls, fetched, items, idx, output, stderr, managers, lookups,
                   total_count, page_num, alerts, args, response, files, file_ops>>

NextDevices ==
    \/ devices_health_page
    \/ devices_health_page_raises
    \/ devices_health_device
    \/ devices_health_device_raises
    \/ devices_health_return

----------------------------------------------------------------------------
(* list_alert_urls *)

\* line 154: the number of alerts of a page from which another page is requested
PageSize == 500

\* the last page number the remote can answer with a full page
MaxSearchPages == 2

\* the numbers of alerts a search page can hold
AlertPageSizes == {0, 2, PageSize - 1, PageSize}

\* the id of the i-th alert of search page p
AlertId(p, i) == (p - 1) * PageSize + i

\* response.data of search page p when it holds n alerts
AlertPage(p, n) == [alerts |-> [i \in 1..n |-> [id |-> AlertId(p, i), state |-> "OPEN"]]]

\* get_alert_aggregate_data(sdk, alert_id): the aggregated details of the alert
get_alert_aggregate_data(alert_id) ==
    [id |-> alert_id,
     ffsUrlEndpoint |-> <<"ffs", alert_id>>,
     alertUrl |-> <<"alert", alert_id>>,
     severity |-> "HIGH"]

\* MorePages with > for >=
MorePages_Strict(data) == Len(data["alerts"]) > PageSize

\* line 154: the condition of the while loop
MorePages(data) == Len(data["alerts"]) >= PageSize

\* ExtendAlerts with line 157 assigning the new page instead of extending
ExtendAlerts_Assign(old, first, data) == data["alerts"]

\* lines 153 and 157: the alerts after a search: the list of the first response,
\* extended by every later one
ExtendAlerts(old, first, data) == IF first THEN data["alerts"] ELSE old \o data["alerts"]

\* line 159
AlertIds(as) == [i \in 1..Len(as) |-> as[i]["id"]]

\* UrlData with the two urls taken from each other's field
UrlData_Swapped(alert_data) ==
    [id |-> alert_data["id"],
     ffsUrl |-> alert_data["alertUrl"],
     alertUrl |-> alert_data["ffsUrlEndpoint"]]

\* lines 162-166
UrlData(alert_data) ==
    [id |-> alert_data["id"],
     ffsUrl |-> alert_data["ffsUrlEndpoint"],
     alertUrl |-> alert_data["alertUrl"]]

\* the page number of a search: page_num as line 151 set it for the first one
\* (line 152), incremented for every later one (lines 155-156)
SearchPageNum(first, n) == IF first THEN n ELSE n + 1

\* lines 152-159, a search: the first one, or one turn of the while loop
list_alert_urls_search ==
    /\ cmd = "list_alert_urls" /\ pc = "search"
    /\ LET first == fetched = <<>>
           n == SearchPageNum(first, page_num)
       IN
       \E size \in AlertPageSizes :
          /\ n > MaxSearchPages => size < PageSize
          /\ LET data == AlertPage(n, size) IN
                /\ page_num' = n
                /\ calls' = Append(calls, <<"alerts.search", n, "ok">>)
                /\ fetched' = Append(fetched, data)
                /\ alerts' = ExtendAlerts(alerts, first, data)
                /\ IF MorePages(data)
                   THEN /\ pc' = "search"
                        /\ UNCHANGED <<items, idx, exit_code>>
                   ELSE /\ items' = AlertIds(ExtendAlerts(alerts, first, data))
                        /\ idx' = 0
                        /\ pc' = IF ExtendAlerts(alerts, first, data) = <<>>
                                 THEN "done" ELSE "records"
                        /\ exit_code' = IF ExtendAlerts(alerts, first, data) = <<>>
                                        THEN Returned ELSE exit_code
    /\ UNCHANGED <<cmd, output, stderr, managers, lookups, total_count,
                   args, response, files, file_ops>>

\* lines 152 and 156: the search call fails
list_alert_urls_search_raises ==
    /\ cmd = "list_alert_urls" /\ pc = "search"
    /\ page_num' = SearchPageNum(fetched = <<>>, page_num)
    /\ calls' = Append(calls, <<"alerts.search", SearchPageNum(fetched = <<>>, page_num), "raised">>)
    /\ pc' = "failed"
    /\ exit_code' = Raised
    /\ UNCHANGED <<cmd, fetched, items, idx, output, stderr, managers, lookups,
                   total_count, alerts, args, response, files, file_ops>>

\* lines 160-167: one alert id
list_alert_urls_alert ==
    /\ cmd = "list_alert_urls" /\ pc = "records"
    /\ LET alert_id == items[idx + 1]
           alert_data == get_alert_aggregate_data(alert_id)
       IN  /\ calls' = Append(calls, <<"get_alert_aggregate_data", alert_id, "ok">>)
           /\ output' = output_pretty(output, UrlData(alert_data))
    /\ idx' = idx + 1
    /\ pc' = IF idx + 1 = Len(items) THEN "done" ELSE "records"
    /\ exit_code' = IF idx + 1 = Len(items) THEN Returned ELSE exit_code
    /\ UNCHANGED <<cmd, fetched, items, stderr, managers, lookups, total_count,
                   page_num, alerts, args, response, files, file_ops>>

\* line 161: the aggregate lookup fails
list_alert_urls_alert_raises ==
    /\ cmd = "list_alert_urls" /\ pc = "records"
    /\ calls' = Append(calls, <<"get_alert_aggregate_data", items[idx + 1], "raised">>)
    /\ pc' = "failed"
    /\ exit_code' = Raised
    /\ UNCHANGED <<cmd, fetched, items, idx, output, stderr, managers, lookups,
                   total_count, page_num, alerts, args, response, files, file_ops>>

NextAlerts ==
    \/ list_alert_urls_search
    \/ list_alert_urls_search_raises
    \/ list_alert_urls_alert
    \/ list_alert_urls_alert_raises

----------------------------------------------------------------------------
(* download *)

\* values of --md5 and of --sha256: not given, given empty, given
HashArgs == {None, "", "abc123"}

FileNames == {"download", "out.bin"}

\* a path of the local file system: no file there, or a file and its content
NoFile == [exists |-> FALSE, content |-> <<>>]
File(content) == [exists |-> TRUE, content |-> content]

\* the chunks iter_content yields for a streamed file (b"" is a keep-alive chunk)
Responses == { <<>>, <<"ab">>, <<"ab", "", "cd">> }

\* str(chunk) of a bytes chunk: its repr, b'..'
str_bytes(chunk) == [bytes_repr |-> chunk]

\* StreamCall without the else branch of lines 112-113
StreamCall_NoElse(a) ==
    IF Truthy(a.md5) THEN "stream_file_by_md5" ELSE "stream_file_by_sha256"

\* lines 108-113: what the try block does
StreamCall(a) ==
    IF Truthy(a.md5) THEN "stream_file_by_md5"
    ELSE IF Truthy(a.sha256) THEN "stream_file_by_sha256"
    ELSE "ClickException"

\* the hash passed to the stream call
StreamArg(a) == IF Truthy(a.md5) THEN a.md5 ELSE a.sha256

\* lines 108-111: the stream call answers
download_stream ==
    /\ cmd = "download" /\ pc = "stream"
    /\ StreamCall(args) # "ClickException"
    /\ \E chunks \in Responses : response' = chunks
    /\ calls' = Append(calls, <<StreamCall(args), StreamArg(args), "ok">>)
    /\ pc' = "open"
    /\ UNCHANGED <<cmd, fetched, items, idx, output, stderr, exit_code, managers, lookups,
                   total_count, page_num, alerts, args, files, file_ops>>

\* download_checksum_not_found without the return of line 116
download_checksum_not_found_no_return ==
    /\ cmd = "download" /\ pc = "stream"
    /\ StreamCall(args) # "ClickException"
    /\ calls' = Append(calls, <<StreamCall(args), StreamArg(args), "not_found">>)
    /\ stderr' = echo(stderr, Text("Py42ChecksumNotFoundError"))
    /\ pc' = "open"
    /\ UNCHANGED <<cmd, fetched, items, idx, output, exit_code, managers, lookups,
                   total_count, page_num, alerts, args, response, files, file_ops>>

\* lines 114-116: the stream call raises Py42ChecksumNotFoundError
download_checksum_not_found ==
    /\ cmd = "download" /\ pc = "stream"
    /\ StreamCall(args) # "ClickException"
    /\ calls' = Append(calls, <<StreamCall(args), StreamArg(args), "not_found">>)
    /\ stderr' = echo(stderr, Text("Py42ChecksumNotFoundError"))
    /\ pc' = "done"
    /\ exit_code' = Returned
    /\ UNCHANGED <<cmd, fetched, items, idx, output, managers, lookups,
                   total_count, page_num, alerts, args, response, files, file_ops>>

\* lines 108-111: the stream call raises another exception
download_stream_raises ==
    /\ cmd = "download" /\ pc = "stream"
    /\ StreamCall(args) # "ClickException"
    /\ calls' = Append(calls, <<StreamCall(args), StreamArg(args), "raised">>)
    /\ pc' = "failed"
    /\ exit_code' = Raised
    /\ UNCHANGED <<cmd, fetched, items, idx, output, stderr, managers, lookups,
                   total_count, page_num, alerts, args, response, files, file_ops>>

\* lines 112-113: neither hash; the ClickException passes the except clause of
\* line 114 and click reports it and exits 1
download_usage_error ==
    /\ cmd = "download" /\ pc = "stream"
    /\ StreamCall(args) = "ClickException"
    /\ stderr' = echo(stderr, Text("Error: Missing one of required md5 or sha256 options."))
    /\ pc' = "usage_error"
    /\ exit_code' = Raised
    /\ UNCHANGED <<cmd, calls, fetched, items, idx, output, managers, lookups,
                   total_count, page_num, alerts, args, response, files, file_ops>>

\* line 118: open(save_as, "w") creates or truncates the file
download_open ==
    /\ cmd = "download" /\ pc = "open"
    /\ files' = [files EXCEPT ![args.save_as] = File(<<>>)]
    /\ file_ops' = Append(file_ops, <<"open", args.save_as>>)
    /\ items' = response
    /\ idx' = 0
    /\ pc' = IF response = <<>> THEN "done" ELSE "write"
    /\ exit_code' = IF response = <<>> THEN Returned ELSE exit_code
    /\ UNCHANGED <<cmd, calls, fetched, output, stderr, managers, lookups,
                   total_count, page_num, alerts, args, response>>

\* lines 119-121: one chunk
download_chunk ==
    /\ cmd = "download" /\ pc = "write"
    /\ LET chunk == items[idx + 1] IN
       IF chunk # ""
       THEN /\ files' = [files EXCEPT ![args.save_as] = File(Append(@.content, str_bytes(chunk)))]
            /\ file_ops' = Append(file_ops, <<"write", args.save_as>>)
       ELSE UNCHANGED <<files, file_ops>>
    /\ idx' = idx + 1
    /\ pc' = IF idx + 1 = Len(items) THEN "done" ELSE "write"
    /\ exit_code' = IF idx + 1 = Len(items) THEN Returned ELSE exit_code
    /\ UNCHANGED <<cmd, calls, fetched, items, output, stderr, managers, lookups,
                   total_count, page_num, alerts, args, response>>

\* line 119: the stream breaks while the chunks are read
download_chunk_raises ==
    /\ cmd = "download" /\ pc = "write"
    /\ pc' = "failed"
    /\ exit_code' = Raised
    /\ UNCHANGED <<cmd, calls, fetched, items, idx, output, stderr, managers, lookups,
                   total_count, page_num, alerts, args, response, files, file_ops>>

NextDownload ==
    \/ download_stream
    \/ download_checksum_not_found
    \/ download_stream_raises
    \/ download_usage_error
    \/ download_open
    \/ download_chunk
    \/ download_chunk_raises

----------------------------------------------------------------------------
(* The invocation *)

\* the commands that iterate a paginated generator
GeneratorCommands ==
    {"list_managers", "list_orgs", "verify_audit_log_dates", "devices_health",
     "audit_log_total"}

\* the multi-page commands
MultiPageCommands == GeneratorCommands \cup {"list_alert_urls"}

\* the first position of a command
Start(c) ==
    IF c \in GeneratorCommands THEN "pages"
    ELSE IF c = "list_alert_urls" THEN "search"
    ELSE "stream"

\* the state when the command function is entered
InitCmd(c) ==
    /\ cmd = c
    /\ pc = Start(c)
    /\ calls = <<>>
    /\ fetched = <<>>
    /\ items = <<>>
    /\ idx = 0
    /\ output = <<>>
    /\ stderr = <<>>
    /\ exit_code = NoExit
    /\ managers = <<>>
    /\ lookups = <<>>
    /\ total_count = 0
    /\ page_num = 1
    /\ alerts = <<>>
    /\ response = <<>>
    /\ file_ops = <<>>
    /\ IF c = "download"
       THEN /\ args \in [md5 : HashArgs, sha256 : HashArgs, save_as : FileNames]
            /\ files \in [FileNames -> {NoFile, File(<<str_bytes("old")>>)}]
       ELSE /\ args = [md5 |-> None, sha256 |-> None, save_as |-> "download"]
            /\ files = [f \in FileNames |-> NoFile]

Init == \E c \in MultiPageCommands \cup {"download"} : InitCmd(c)

Next ==
    \/ NextManagers
    \/ NextOrgs
    \/ NextVerify
    \/ NextDevices
    \/ NextAudit
    \/ NextAlerts
    \/ NextDownload

Spec == Init /\ [][Next]_vars

SpecManagers == InitCmd("list_managers") /\ [][NextManagers]_vars
SpecVerify == InitCmd("verify_audit_log_dates") /\ [][NextVerify]_vars
SpecAudit == InitCmd("audit_log_total") /\ [][NextAudit]_vars
SpecAlerts == InitCmd("list_alert_urls") /\ [][NextAlerts]_vars
SpecDownload == InitCmd("download") /\ [][NextDownload]_vars

----------------------------------------------------------------------------
(* Properties *)

RECURSIVE Flatten(_)
\* the concatenation of a sequence of sequences
Flatten(ss) == IF ss = <<>> THEN <<>> ELSE Head(ss) \o Flatten(Tail(ss))

RECURSIVE SumSeq(_)
\* the sum of a sequence of numbers
SumSeq(s) == IF s = <<>> THEN 0 ELSE Head(s) + SumSeq(Tail(s))

\* the set of the elements of a sequence
Range(s) == {s[i] : i \in 1..Len(s)}

\* the records under `key` of the pages answered so far: page order, then the
\* order inside the page
Records(key) == Flatten([i \in 1..Len(fetched) |-> Get(fetched[i], key, <<>>)])

\* the last remote call made
LastCall == calls[Len(calls)]

\* a remote call has failed
RemoteFailed == pc = "failed" /\ calls # <<>> /\ LastCall[3] = "raised"

----------------------------------------------------------------------------
(* list_managers *)

\* C1: when list_managers ends, it has printed one mapping; there was one detail
\* call per user record, in page order then order inside the page; the mapping
\* has exactly one key per distinct non-empty manager username the detail calls
\* returned, and the value of a key is the list of the usernames of the users
\* whose detail call returned it, in that order, one entry per user record.
C1_ManagersGrouped ==
    (cmd = "list_managers" /\ pc = "done") =>
        /\ Len(output) = 1
        /\ Len(lookups) = Len(Records("users"))
        /\ \A i \in 1..Len(lookups) : lookups[i].username = Records("users")[i].username
        /\ LET printed == output[1].pretty
               EmployeesOf(m) ==
                   LET of_m == SelectSeq(lookups, LAMBDA l : l.managerUsername = m)
                   IN  [i \in 1..Len(of_m) |-> of_m[i].username]
           IN  /\ \A i, j \in 1..Len(printed) : printed[i].key = printed[j].key => i = j
               /\ {printed[i].key : i \in 1..Len(printed)}
                      = {l.managerUsername : l \in Range(lookups)} \ {None, ""}
               /\ \A i \in 1..Len(printed) : printed[i].val = EmployeesOf(printed[i].key)

\* two pages of two users: two managers, one of them with two employees of
\* different pages, and a user without manager
C1_Witness ==
    /\ cmd = "list_managers" /\ pc = "done"
    /\ Len(fetched) = 2 /\ Len(lookups) = 4
    /\ Len(output[1].pretty) = 2
    /\ output[1].pretty[1] = [key |-> "dan", val |-> <<"amy", "bob">>]
    /\ lookups[1].managerUsername = "dan" /\ lookups[2].managerUsername = None
    /\ lookups[4].managerUsername = "dan"

\* C9: a step of list_managers whose detail call returns no manager username
\* (None or empty) leaves the mapping as it is, writes nothing, raises nothing
\* and goes on to the next user.
C9_NoManagerSkipped ==
    [][ ( /\ cmd = "list_managers"
          /\ Len(lookups') = Len(lookups) + 1
          /\ ~Truthy(lookups'[Len(lookups')].managerUsername) )
        => ( /\ managers' = managers
             /\ output' = output /\ stderr' = stderr
             /\ exit_code' = exit_code
             /\ idx' = idx + 1
             /\ pc' = IF idx + 1 = Len(items) THEN "pages" ELSE "records" ) ]_vars

\* amy has no manager (once None, once empty) and is in no list, and she is a
\* key, as the manager of bob
C9_Witness ==
    /\ cmd = "list_managers" /\ pc = "done"
    /\ \E i, j \in 1..Len(lookups) :
          /\ lookups[i] = [username |-> "amy", managerUsername |-> None]
          /\ lookups[j] = [username |-> "amy", managerUsername |-> ""]
    /\ output[1].pretty = <<[key |-> "amy", val |-> <<"bob">>]>>

----------------------------------------------------------------------------
(* audit_log_total *)

\* C3: the running total of audit_log_total is always the sum of the numbers
\* of events of the pages consumed so far (0 for a page without "events"), it
\* never decreases, and the command prints nothing before it ends and then
\* exactly one integer, that sum (0 when there was no page).
C3_TotalIsSum ==
    /\ [](cmd = "audit_log_total" =>
            LET k == [i \in 1..Len(fetched) |->
                        IF "events" \in DOMAIN fetched[i]
                        THEN Len(fetched[i]["events"]) ELSE 0]
            IN  /\ total_count = SumSeq(k)
                /\ pc = "done" => output = <<[int |-> SumSeq(k)]>>
                /\ pc # "done" => output = <<>>)
    /\ [][cmd = "audit_log_total" => total_count' >= total_count]_vars

\* two pages, 2 events then 1 event: 3 is printed
C3_Witness ==
    /\ cmd = "audit_log_total" /\ pc = "done"
    /\ Len(fetched) = 2
    /\ Len(Get(fetched[1], "events", <<>>)) = 2
    /\ Len(Get(fetched[2], "events", <<>>)) = 1
    /\ output = <<[int |-> 3]>>

----------------------------------------------------------------------------
(* verify_audit_log_dates *)

\* the events already scanned: all of the pages answered, less the rest of the
\* page being iterated
Scanned ==
    LET all == Records("events")
    IN  SubSeq(all, 1, Len(all) - (IF pc = "records" THEN Len(items) - idx ELSE 0))

RECURSIVE Findings(_)
\* one finding (the marker line, then the event) per event of evs whose
\* timestamp does not parse
Findings(evs) ==
    IF evs = <<>> THEN <<>>
    ELSE (IF Head(evs).timestamp \in Parseable
          THEN <<>>
          ELSE <<[text |-> "FOUND ONE!"], [dict |-> Head(evs)]>>)
         \o Findings(Tail(evs))

\* C4: at every point of verify_audit_log_dates the output is exactly one
\* finding, holding the event, per scanned event whose timestamp does not
\* parse, in scan order, and nothing for the others; the command fails only
\* on a failed remote call or a page without "events", never on a timestamp;
\* when it ends every event of every page has been scanned.
C4_OneFindingPerBadTimestamp ==
    cmd = "verify_audit_log_dates" =>
        /\ output = Findings(Scanned)
        /\ pc = "failed" => (LastCall[3] = "raised"
                             \/ "events" \notin DOMAIN fetched[Len(fetched)])
        /\ pc = "done" => Scanned = Records("events")

\* a bad timestamp first, then three more events of which one is bad: the scan
\* ends with two findings
C4_Witness ==
    /\ cmd = "verify_audit_log_dates" /\ pc = "done"
    /\ Len(Records("events")) = 4
    /\ Records("events")[1].timestamp = "yesterday"
    /\ Records("events")[2].timestamp \in Parseable
    /\ Records("events")[4].timestamp = "2020-11-23 17:13"
    /\ Len(output) = 4

----------------------------------------------------------------------------
(* list_alert_urls *)

\* the search calls made, in order
SearchCalls == SelectSeq(calls, LAMBDA c : c[1] = "alerts.search")

\* the number of alerts of the last page answered
LastPageLen == Len(fetched[Len(fetched)]["alerts"])

\* the search loop has ended: the command is in, or past, the lookups
PastSearch ==
    \/ pc \in {"records", "done"}
    \/ pc = "failed" /\ LastCall[1] = "get_alert_aggregate_data"

\* C2: list_alert_urls requests page n+1 if and only if page n holds at least
\* PageSize (500) alerts: every page but the last answered holds at least 500;
\* while the loop runs the last page answered holds at least 500; once a page
\* holds fewer the loop has ended and no further search call was made.
C2_StopsAfterShortPage ==
    cmd = "list_alert_urls" =>
        /\ \A n \in 1..(Len(fetched) - 1) : Len(fetched[n]["alerts"]) >= 500
        /\ (pc = "search" /\ fetched # <<>>) => LastPageLen >= 500
        /\ PastSearch => LastPageLen < 500
        /\ (fetched # <<>> /\ LastPageLen < 500) =>
              /\ PastSearch
              /\ Len(SearchCalls) = Len(fetched)

\* two pages of 500 alerts, then one of 499: the lookups have begun after three searches
C2_Witness ==
    /\ cmd = "list_alert_urls" /\ pc = "records"
    /\ Len(fetched) = 3 /\ LastPageLen = 499
    /\ Len(fetched[2]["alerts"]) = 500
    /\ Len(calls) > 3

\* C10: the search calls of list_alert_urls carry the page numbers 1, 2, ...,
\* n in this order, each once; the accumulated alerts are the concatenation of
\* the pages answered, in order; no search call follows an aggregate lookup.
C10_PagesInOrder ==
    cmd = "list_alert_urls" =>
        /\ \A i \in 1..Len(SearchCalls) : SearchCalls[i][2] = i
        /\ LET all == Records("alerts")
           IN  /\ alerts = all
               /\ PastSearch => items = [i \in 1..Len(all) |-> all[i].id]
        /\ \A i \in 1..Len(calls) :
              calls[i][1] = "alerts.search" => i <= Len(SearchCalls)

\* pages of 500, 500 and 2 alerts: 1002 alerts after three searches, and the
\* first lookup made
C10_Witness ==
    /\ cmd = "list_alert_urls" /\ pc = "records"
    /\ Len(fetched) = 3
    /\ Len(fetched[1]["alerts"]) = 500 /\ Len(fetched[2]["alerts"]) = 500
    /\ Len(alerts) = 1002 /\ alerts[1002].id = 1002
    /\ Len(calls) = 4 /\ calls[4][1] = "get_alert_aggregate_data"

\* C7: list_alert_urls prints one record per alert the searches returned, in
\* that order, each with exactly the fields id, ffsUrl and alertUrl, which are
\* id, ffsUrlEndpoint and alertUrl of the aggregate lookup of that alert's id;
\* when the command ends every alert has its record.
C7_OneUrlRecordPerAlert ==
    cmd = "list_alert_urls" =>
        LET all == Records("alerts")
        IN  /\ Len(output) <= Len(all)
            /\ pc = "done" => Len(output) = Len(all)
            /\ \A i \in 1..Len(output) :
                  LET lookup == get_alert_aggregate_data(all[i].id)
                  IN  /\ DOMAIN output[i].pretty = {"id", "ffsUrl", "alertUrl"}
                      /\ output[i].pretty.id = lookup.id
                      /\ output[i].pretty.ffsUrl = lookup.ffsUrlEndpoint
                      /\ output[i].pretty.alertUrl = lookup.alertUrl

\* a page of 500 alerts and one of 2: 502 records are printed
C7_Witness ==
    /\ cmd = "list_alert_urls" /\ pc = "done"
    /\ Len(fetched) = 2
    /\ Len(output) = 502
    /\ output[502].pretty.alertUrl = <<"alert", 502>>

----------------------------------------------------------------------------
(* download *)

\* the stream call raised Py42ChecksumNotFoundError
ChecksumNotFound == calls # <<>> /\ LastCall[3] = "not_found"

\* C5: after the stream call of download raised Py42ChecksumNotFoundError, the
\* command has ended, the error message is on standard error, and no file was
\* opened or written: the target is no truncated file.
C5_NotFoundLeavesFile ==
    (cmd = "download" /\ ChecksumNotFound) =>
        /\ pc = "done"
        /\ stderr = <<[text |-> "Py42ChecksumNotFoundError"]>>
        /\ output = <<>>
        /\ file_ops = <<>>
        /\ files[args.save_as] # File(<<>>)

\* --sha256 given alone, no content matches, and the existing target is intact
C5_Witness ==
    /\ cmd = "download" /\ ChecksumNotFound
    /\ args.md5 = None /\ args.sha256 = "abc123"
    /\ files[args.save_as] = File(<<[bytes_repr |-> "old"]>>)

\* C6: once download has left its first step with neither --md5 nor --sha256
\* given (absent or empty), it has ended in the usage error with a non-zero
\* exit code, no stream call was made, no file was opened or written, and the
\* usage error is what was reported, not the message of the checksum handler.
C6_UsageError ==
    (cmd = "download" /\ ~Truthy(args.md5) /\ ~Truthy(args.sha256) /\ pc # "stream") =>
        /\ pc = "usage_error"
        /\ exit_code \notin {Returned, NoExit}
        /\ calls = <<>>
        /\ file_ops = <<>>
        /\ stderr = <<[text |-> "Error: Missing one of required md5 or sha256 options."]>>

\* --md5 given empty and no --sha256, over an existing target
C6_Witness ==
    /\ cmd = "download" /\ pc = "usage_error"
    /\ args.md5 = "" /\ args.sha256 = None
    /\ files[args.save_as].exists

----------------------------------------------------------------------------
(* Failure of a remote call *)

\* C8 as stated: when a remote call of a multi-page command has failed,
\* nothing derived from the pages fetched before is output.
C8_NothingOutputOnFailure ==
    (cmd \in MultiPageCommands /\ RemoteFailed) => output = <<>>

\* what a streaming command has printed for the records processed so far
Streamed ==
    LET n == Len(output)
        orgs == Records("orgs")
        computers == Records("computers")
        found == Records("alerts")
    IN  CASE cmd = "list_orgs" ->
                 /\ n + (IF pc = "records" THEN Len(items) - idx ELSE 0)
                        = Len(orgs)
                 /\ \A i \in 1..n : output[i] = [json |-> orgs[i]]
          [] cmd = "devices_health" ->
                 /\ n = Cardinality({i \in 1..Len(calls) :
                            calls[i][1] = "create_device_data" /\ calls[i][3] = "ok"})
                 /\ \A i \in 1..n :
                       output[i] = [pretty |-> [device |-> computers[i].guid,
                                                health |-> "ok"]]
          [] cmd = "verify_audit_log_dates" -> output = Findings(Scanned)
          [] cmd = "list_alert_urls" ->
                 /\ n = Cardinality({i \in 1..Len(calls) :
                            calls[i][1] = "get_alert_aggregate_data" /\ calls[i][3] = "ok"})
                 /\ \A i \in 1..n : output[i].pretty.id = found[i].id
          [] OTHER -> FALSE

\* C8, amended: a failed remote call of a multi-page command is the last call
\* made (none is retried, none follows) and ends the command with the
\* exception; nothing is written to standard error; list_managers and
\* audit_log_total have then output nothing; list_orgs,
\* verify_audit_log_dates, devices_health and list_alert_urls have output
\* exactly what they printed for the records processed before the failure;
\* and no step is taken after the failure.
C8_FailurePropagates ==
    /\ [](cmd \in MultiPageCommands =>
            /\ \A i \in 1..Len(calls) :
                  calls[i][3] = "raised" => (i = Len(calls) /\ pc = "failed")
            /\ RemoteFailed =>
                  /\ exit_code = Raised
                  /\ stderr = <<>>
                  /\ IF cmd \in {"list_managers", "audit_log_total"}
                     THEN output = <<>>
                     ELSE Streamed)
    /\ [][pc # "failed"]_vars

\* list_orgs fails on its second page after it has printed the two orgs of the first
C8_Witness ==
    /\ cmd = "list_orgs" /\ RemoteFailed
    /\ Len(fetched) = 1
    /\ Len(output) = 2


====
